---- MODULE Spec2Model ----
(***************************************************************************)
(* Model of src/dynamics_model.py: the ensemble dynamics model             *)
(* (DynamicsModel), the per-member training loop (Net.optimize) and the    *)
(* probabilistic loss (ProbLoss).                                          *)
(*                                                                         *)
(* Abstractions, stated once:                                              *)
(*  - a network's weights are one integer w; Net.forward maps (w, x) to    *)
(*    the matrix out[r][c] = w * (c + x[r][1]), so the output depends on   *)
(*    the weights, on the input row and on the output column, and w = 0    *)
(*    is a network whose output is all zeros;                              *)
(*  - an optimizer step replaces w by any value of WeightVals;             *)
(*  - a per-epoch error value is recorded as the pair <<member, epoch>>    *)
(*    that produced it;                                                    *)
(*  - dataset samples are identified by their 0-based row index;           *)
(*  - split fractions are k / SplitDen, arithmetic is exact;               *)
(*  - the libraries behave as documented: sklearn's KFold rejects          *)
(*    n_splits < 2 and fewer samples than splits, torch's DataLoader with  *)
(*    shuffle=True rejects an empty dataset and a batch size below 1;      *)
(*  - in ProbLoss a log-variance v is stored as the positive rational      *)
(*    exp(v) = <<num, den>>, so softplus is exact: exp(softplus(v)) =      *)
(*    1 + exp(v), v1 - v2 is a quotient and v1 + v2 a product.             *)
(***************************************************************************)
EXTENDS Integers, Sequences, FiniteSets, TLC

\* ---------------------------------------------------------------- bounds
MaxN == 4
MaxE == 3
MaxEpochs == 2
MaxBatch == 2
MaxRows == 2
SplitDen == 2
MaxExp == 2
MaxRaw == 8

\* the literal column count of DynamicsModel.predict
SliceWidth == 21

StateSizes == {1, 21}
ActionSizes == {2}
ParamSizes == {3}
WeightVals == {0, 1}
SplitNums == {-1, 0, 1, 2, 3}
BatchSizes == 0..MaxBatch
EpochVals == 0..MaxEpochs
LossSizes == {1, 2}

VARIABLES cfg, model, loss_fn, nets, acctrain, acctest,
          pc, dataset, kf, member, sub_data, trainPart, testPart, epoch,
          remaining, train_errors, test_errors, acctrain_l, acctest_l,
          stepped, tested, x, ret,
          lossPc, lossMax, lossMin, lossRaw, lossMid, lossLogvar

modelVars == <<cfg, model, loss_fn, nets, acctrain, acctest>>
callVars == <<pc, dataset, kf, member, sub_data, trainPart, testPart, epoch,
              remaining, train_errors, test_errors, acctrain_l, acctest_l,
              stepped, tested>>
ioVars == <<x, ret>>
lossVars == <<lossPc, lossMax, lossMin, lossRaw, lossMid, lossLogvar>>
vars == <<modelVars, callVars, ioVars, lossVars>>

\* ------------------------------------------------------------- helpers
Min(a, b) == IF a <= b THEN a ELSE b
Max(a, b) == IF a >= b THEN a ELSE b

Range(s) == {s[k] : k \in 1..Len(s)}

\* Python int() of the exact quotient num/den, den > 0: truncation toward zero
IntTrunc(num, den) == IF num >= 0 THEN num \div den ELSE -((-num) \div den)

\* Python slice bound: s[:k] and s[k:] cut a sequence of length n at Cut(k, n)
Cut(k, n) == IF k < 0 THEN Max(n + k, 0) ELSE Min(k, n)

\* Python None; it has the fields of a return value so that a test of them
\* is defined on it
None == [op |-> "None", status |-> "None", of |-> <<>>, val |-> <<>>]

\* ------------------------------------------------ DynamicsModel.__init__
\* the configuration object. A field the selected mode never reads is fixed
\* (E without ensembling). train reads the optimizer fields and never the
\* sizes or the trajectory flag, predict the reverse, so the configurations
\* are those that vary the one group or the other around a plain value.
AllConfigs ==
  {c \in [ensemble : BOOLEAN, traj : BOOLEAN, prob : BOOLEAN, E : 1..MaxE,
          state_size : StateSizes, action_size : ActionSizes,
          param_size : ParamSizes,
          batch : BatchSizes, split : SplitNums, epochs : EpochVals] :
     (~c.ensemble) => c.E = 1}

PlainOptimizer(c) == c.batch = 1 /\ c.split = 1 /\ c.epochs = 1

PlainSizes(c) == c.state_size = 1 /\ ~c.traj

Configs == {c \in AllConfigs : PlainOptimizer(c) \/ PlainSizes(c)}

InitE(c) == IF c.ensemble THEN c.E ELSE 1

InitNIn(c) == IF c.traj THEN c.state_size + c.param_size + 1
              ELSE c.state_size + c.action_size

\* variant: the output count is not doubled in probabilistic mode
InitNOutSingle(c) == c.state_size

InitNOut(c) == IF c.prob THEN c.state_size * 2 ELSE c.state_size

\* ProbLoss.__init__: max_logvar = +1 and min_logvar = -1, one per state
ProbLossInit(size) ==
  [kind |-> "ProbLoss", size |-> size,
   max_logvar |-> [k \in 1..size |-> 1],
   min_logvar |-> [k \in 1..size |-> -1]]

InitLossFn(c) == IF c.prob THEN ProbLossInit(c.state_size)
                 ELSE [kind |-> "MSELoss"]

\* Net.__init__: the sizes it is given and its own (randomly initialised) weights
NetInit(n_in, n_out, w) == [n_in |-> n_in, n_out |-> n_out, w |-> w]

ModelInit(c) ==
  [ens |-> c.ensemble, traj |-> c.traj, prob |-> c.prob, E |-> InitE(c),
   n_in |-> InitNIn(c), n_out |-> InitNOut(c)]

\* ------------------------------------------------------ sklearn KFold
\* KFold.split without shuffling: contiguous folds, the first n % E folds
\* one sample longer; indices are 0-based
\* variant: the remainder samples are left out of every fold
FoldSizeNoRemainder(n, E, i) == n \div E

FoldSize(n, E, i) == (n \div E) + (IF i <= n % E THEN 1 ELSE 0)

RECURSIVE FoldStart(_, _, _)
FoldStart(n, E, i) == IF i <= 1 THEN 0
                      ELSE FoldStart(n, E, i - 1) + FoldSize(n, E, i - 1)

Indices(n) == [k \in 1..n |-> k - 1]

InFold(n, E, i, s) == /\ FoldStart(n, E, i) <= s
                      /\ s < FoldStart(n, E, i) + FoldSize(n, E, i)

KFoldSplit(n, E) ==
  [i \in 1..E |->
     [train_idx |-> SelectSeq(Indices(n), LAMBDA s : ~InFold(n, E, i, s)),
      test_idx |-> SelectSeq(Indices(n), LAMBDA s : InFold(n, E, i, s))]]

\* ------------------------------------------------------- Net.optimize
\* list(zip(dataset[0], dataset[1])): as many samples as the shorter array
Zipped(d) == SubSeq(d.inputs, 1, Min(Len(d.inputs), Len(d.targets)))

\* variant: the split point is rounded up
SplitPointCeil(c, n) == Cut(IntTrunc(c.split * n + SplitDen - 1, SplitDen), n)

\* int(split * len(dataset)) and the two slices around it
SplitPoint(c, n) == Cut(IntTrunc(c.split * n, SplitDen), n)

TrainSlice(c, data) == SubSeq(data, 1, SplitPoint(c, Len(data)))

TestSlice(c, data) == SubSeq(data, SplitPoint(c, Len(data)) + 1, Len(data))

\* DataLoader(part, batch_size=bs, shuffle=True): the batch sampler rejects a
\* batch size that is not positive, the random sampler an empty part
LoaderRaises(c, part) == c.batch <= 0 \/ Len(part) = 0

\* the batches a shuffled loader can yield next: bs of the samples not yet
\* visited in this epoch, or all of them when fewer are left
Batches(c, rest) ==
  {b \in SUBSET rest : Cardinality(b) = Min(c.batch, Cardinality(rest))}

\* variant: the epoch loop stops one epoch early
LastEpochEarly(c, e) == e >= c.epochs - 1

\* for epoch in range(epochs): e is the number of epochs run so far
LastEpoch(c, e) == e >= c.epochs

\* variant: the members hold one network object, a step reaches all of them
OptimizerStepShared(ns, i, w) == [j \in 1..Len(ns) |-> [ns[j] EXCEPT !.w = w]]

\* optimizer = Adam(self.features.parameters()): a step updates the weights
\* of this net's layers and nothing else
OptimizerStep(ns, i, w) == [ns EXCEPT ![i].w = w]

OptimizerStepLoss(lf) == lf

\* ------------------------------------------------------------ states
NoCall ==
  /\ pc = "idle" /\ dataset = None /\ kf = <<>> /\ member = 0
  /\ sub_data = <<>> /\ trainPart = <<>> /\ testPart = <<>> /\ epoch = 0
  /\ remaining = {} /\ train_errors = <<>> /\ test_errors = <<>>
  /\ acctrain_l = <<>> /\ acctest_l = <<>>

LossIdle ==
  /\ lossPc = "off" /\ lossMax = <<>> /\ lossMin = <<>> /\ lossRaw = <<>>
  /\ lossMid = <<>> /\ lossLogvar = <<>>

Init ==
  /\ cfg \in Configs
  /\ model = ModelInit(cfg)
  /\ loss_fn = InitLossFn(cfg)
  /\ \E ws \in [1..InitE(cfg) -> WeightVals] :
       nets = [i \in 1..InitE(cfg) |->
                 NetInit(InitNIn(cfg), InitNOut(cfg), ws[i])]
  /\ acctrain = None /\ acctest = None
  /\ NoCall
  /\ stepped = <<>> /\ tested = <<>>
  /\ x = None /\ ret = None
  /\ LossIdle

\* --------------------------------------------------- DynamicsModel.train
\* a dataset is the pair of parallel arrays (inputs, targets), each given by
\* the row indices it holds; the two lengths are equal or one apart
Datasets ==
  {[inputs |-> Indices(p[1]), targets |-> Indices(p[2])] :
     p \in {q \in (0..MaxN) \X (0..MaxN) : q[1] - q[2] \in {-1, 0, 1}}}


\* the arguments and locals of the call in progress are dropped when it ends
EndCall ==
  /\ pc' = "idle" /\ dataset' = None /\ kf' = <<>> /\ member' = 0
  /\ sub_data' = <<>> /\ trainPart' = <<>> /\ testPart' = <<>> /\ epoch' = 0
  /\ remaining' = {} /\ train_errors' = <<>> /\ test_errors' = <<>>
  /\ acctrain_l' = <<>> /\ acctest_l' = <<>>

\* an exception leaves train: nothing is returned and nothing is stored
Raise(err) ==
  /\ EndCall
  /\ ret' = [op |-> "train", status |-> err, of |-> None, val |-> None]
  /\ UNCHANGED <<acctrain, acctest>>

\* variant: the number of samples is not compared with the number of folds
KFoldRaisesSplitsOnly(E, n) == E < 2

\* KFold(n_splits=E) rejects E < 2; the first next() on kf.split rejects a
\* dataset of fewer than E samples
KFoldRaises(E, n) == E < 2 \/ n < E

\* train up to the first member's optimize call
TrainCall(ds) ==
  /\ pc = "idle"
  /\ x' = None
  /\ stepped' = [i \in 1..Len(nets) |-> {}]
  /\ tested' = [i \in 1..Len(nets) |-> {}]
  /\ UNCHANGED <<cfg, model, loss_fn, nets, lossVars>>
  /\ IF model.ens /\ KFoldRaises(model.E, Len(ds.inputs))
     THEN Raise("ValueError")
     ELSE /\ dataset' = ds
          /\ kf' = IF model.ens THEN KFoldSplit(Len(ds.inputs), model.E)
                   ELSE <<>>
          /\ member' = 1
          /\ pc' = "optimize"
          /\ acctrain_l' = <<>> /\ acctest_l' = <<>>
          /\ ret' = None
          /\ UNCHANGED <<acctrain, acctest, sub_data, trainPart, testPart,
                         epoch, remaining, train_errors, test_errors>>

\* dataset[0][train_idx], dataset[1][train_idx]: numpy rejects an index
\* beyond the end of the array
IndexRaises(ds, idx) ==
  \E k \in 1..Len(idx) : idx[k] >= Len(ds.inputs) \/ idx[k] >= Len(ds.targets)

\* variant: every member receives the whole dataset
SubDataAll(ds, i) == Zipped(ds)

\* the samples member i's optimize call receives, zipped
SubData(ds, i) == IF model.ens THEN kf[i].train_idx ELSE Zipped(ds)

\* Net.optimize up to the epoch loop: the split and the two loaders
OptimizeStart ==
  /\ pc = "optimize"
  /\ UNCHANGED <<cfg, model, loss_fn, nets, lossVars, x, stepped, tested>>
  /\ IF model.ens /\ IndexRaises(dataset, kf[member].train_idx)
     THEN Raise("IndexError")
     ELSE LET data == SubData(dataset, member)
              tr == TrainSlice(cfg, data)
              te == TestSlice(cfg, data)
          IN IF LoaderRaises(cfg, tr) \/ LoaderRaises(cfg, te)
             THEN Raise("ValueError")
             ELSE /\ sub_data' = data
                  /\ trainPart' = tr
                  /\ testPart' = te
                  /\ train_errors' = <<>> /\ test_errors' = <<>>
                  /\ IF LastEpoch(cfg, 0)
                     THEN /\ pc' = "optimize_ret"
                          /\ UNCHANGED <<epoch, remaining>>
                     ELSE /\ pc' = "epoch"
                          /\ epoch' = 1
                          /\ remaining' = Range(tr)
                  /\ UNCHANGED <<dataset, kf, member, acctrain_l,
                                 acctest_l, acctrain, acctest, ret>>

\* one batch of the training loop: forward, loss, backward, optimizer.step()
TrainBatch ==
  /\ pc = "epoch"
  /\ remaining # {}
  /\ \E b \in Batches(cfg, remaining), w \in WeightVals :
       /\ nets' = OptimizerStep(nets, member, w)
       /\ loss_fn' = OptimizerStepLoss(loss_fn)
       /\ stepped' = [stepped EXCEPT ![member] = @ \cup b]
       /\ remaining' = remaining \ b
  /\ UNCHANGED <<cfg, model, acctrain, acctest, lossVars, x, ret, tested,
                 pc, dataset, kf, member, sub_data, trainPart, testPart,
                 epoch, train_errors, test_errors, acctrain_l, acctest_l>>

\* the rest of an epoch: the test loop (no optimizer step) and the two appends
EpochEnd ==
  /\ pc = "epoch"
  /\ remaining = {}
  /\ tested' = [tested EXCEPT ![member] = @ \cup Range(testPart)]
  /\ train_errors' = Append(train_errors, <<member, epoch>>)
  /\ test_errors' = Append(test_errors, <<member, epoch>>)
  /\ IF ~LastEpoch(cfg, epoch)
     THEN /\ epoch' = epoch + 1
          /\ remaining' = Range(trainPart)
          /\ pc' = "epoch"
     ELSE /\ pc' = "optimize_ret"
          /\ UNCHANGED <<epoch, remaining>>
  /\ UNCHANGED <<modelVars, lossVars, x, ret, stepped, dataset, kf, member,
                 sub_data, trainPart, testPart, acctrain_l, acctest_l>>

\* optimize returns; train appends the two sequences and moves to the next
\* pair of zip(enumerate(self.nets), kf.split(...))
OptimizeReturn ==
  /\ pc = "optimize_ret"
  /\ acctrain_l' = Append(acctrain_l, train_errors)
  /\ acctest_l' = Append(acctest_l, test_errors)
  /\ IF model.ens /\ member < Min(Len(nets), Len(kf))
     THEN /\ member' = member + 1
          /\ pc' = "optimize"
     ELSE /\ pc' = "train_ret"
          /\ UNCHANGED member
  /\ UNCHANGED <<modelVars, lossVars, x, ret, stepped, tested, dataset, kf,
                 sub_data, trainPart, testPart, epoch, remaining,
                 train_errors, test_errors>>

\* self.acctrain, self.acctest = acctrain_l, acctest_l; return them
TrainReturn ==
  /\ pc = "train_ret"
  /\ acctrain' = acctrain_l
  /\ acctest' = acctest_l
  /\ ret' = [op |-> "train", status |-> "ok", of |-> None,
             val |-> <<acctrain_l, acctest_l>>]
  /\ EndCall
  /\ UNCHANGED <<cfg, model, loss_fn, nets, lossVars, x, stepped, tested>>

\* -------------------------------------------------------- Net.forward
Rows(m) == Len(m)
Cols(m) == IF Len(m) = 0 THEN 0 ELSE Len(m[1])

\* the layers applied to x: a matrix of n_out columns, one row per row of x
Forward(net, xm) ==
  [r \in 1..Rows(xm) |-> [c \in 1..net.n_out |-> net.w * (c + xm[r][1])]]

\* ------------------------------------------------ DynamicsModel.predict
\* the inputs of predict: matrices of n_in columns
XInput(rows, n_in) == [r \in 1..rows |-> [c \in 1..n_in |-> r + c]]

Inputs(n_in) == {XInput(rows, n_in) : rows \in 1..MaxRows}

\* prediction += n.forward(x) / len(self.nets), over the nets in order; the
\* entries are kept as numerators over the common denominator len(self.nets)
RECURSIVE SumForward(_, _, _, _)
SumForward(ns, k, xm, n_out) ==
  IF k = 0 THEN [r \in 1..Rows(xm) |-> [c \in 1..n_out |-> 0]]
  ELSE LET acc == SumForward(ns, k - 1, xm, n_out)
           out == Forward(ns[k], xm)
       IN [r \in 1..Rows(xm) |-> [c \in 1..n_out |-> acc[r][c] + out[r][c]]]

\* m[:, :w]
ColSlice(m, w) == [r \in 1..Rows(m) |-> SubSeq(m[r], 1, Min(w, Len(m[r])))]

\* the width of prediction[:, :21] and of x[:, :21]
PredWidth(m) == Min(SliceWidth, Cols(m))

\* a + b on matrices of equal row count: the column counts must agree or
\* one of them be 1 (broadcast)
CanBroadcast(a, b) == Cols(a) = Cols(b) \/ Cols(a) = 1 \/ Cols(b) = 1

BroadcastAdd(a, b, den) ==
  [r \in 1..Rows(a) |->
     [c \in 1..Max(Cols(a), Cols(b)) |->
        den * a[r][IF Cols(a) = 1 THEN 1 ELSE c]
        + b[r][IF Cols(b) = 1 THEN 1 ELSE c]]]

\* the value predict returns: numerators over den = len(self.nets). of is
\* the argument the value was computed from
PredictValue(m, ns, xm) ==
  LET prediction == SumForward(ns, Len(ns), xm, m.n_out)
      p == ColSlice(prediction, PredWidth(prediction))
      xs == ColSlice(xm, PredWidth(xm))
  IN IF m.traj
     THEN [op |-> "predict", status |-> "ok", of |-> xm,
           val |-> [den |-> Len(ns), num |-> p]]
     ELSE IF CanBroadcast(xs, p)
          THEN [op |-> "predict", status |-> "ok", of |-> xm,
                val |-> [den |-> Len(ns), num |-> BroadcastAdd(xs, p, Len(ns))]]
          ELSE [op |-> "predict", status |-> "RuntimeError", of |-> xm,
                val |-> None]

\* variant: the delta is added to the caller's array in place
PredictArgInPlace(xm) == [r \in 1..Len(xm) |-> [c \in 1..Len(xm[r]) |-> xm[r][c] + 1]]

\* x = torch.from_numpy(x) rebinds the local name; the caller's array is
\* read and never written
PredictArg(xm) == xm

\* the caller passes its array x to predict
PredictCall(xm) ==
  /\ pc = "idle"
  /\ x' = xm
  /\ pc' = "predict"
  /\ UNCHANGED <<modelVars, ret, dataset, kf, member, sub_data, trainPart, testPart,
                 epoch, remaining, train_errors, test_errors, acctrain_l,
                 acctest_l, stepped, tested, lossVars>>

\* the body of predict, to its return
PredictRun ==
  /\ pc = "predict"
  /\ ret' = PredictValue(model, nets, x)
  /\ x' = PredictArg(x)
  /\ pc' = "idle"
  /\ UNCHANGED <<modelVars, dataset, kf, member, sub_data, trainPart,
                 testPart, epoch, remaining, train_errors, test_errors,
                 acctrain_l, acctest_l, stepped, tested, lossVars>>

Predict == \E xm \in Inputs(model.n_in) : PredictCall(xm)

Train == \E ds \in Datasets : TrainCall(ds)

Next ==
  \/ Train
  \/ Predict
  \/ PredictRun
  \/ OptimizeStart
  \/ TrainBatch
  \/ EpochEnd
  \/ OptimizeReturn
  \/ TrainReturn

Spec == Init /\ [][Next]_vars

\* ------------------------------------------------------------ ProbLoss
\* a log-variance v is held as exp(v), a positive rational <<num, den>>
LvSub(a, b) == <<a[1] * b[2], a[2] * b[1]>>
LvAdd(a, b) == <<a[1] * b[1], a[2] * b[2]>>
LvLeq(a, b) == a[1] * b[2] <= b[1] * a[2]

\* variant: the 1 + is missing, softplus is the identity
softplus_identity(a) == a

\* softplus(v) = 1/B * log(1 + exp(B * v)) with B = 1
softplus_raw(a) == <<a[2] + a[1], a[2]>>

\* logvar = self.max_logvar - self.softplus_raw(self.max_logvar - logvar)
ClampMax(mx, lv) == [k \in 1..Len(lv) |-> LvSub(mx[k], softplus_raw(LvSub(mx[k], lv[k])))]

\* logvar = self.min_logvar + self.softplus_raw(logvar - self.min_logvar)
ClampMin(mn, lv) == [k \in 1..Len(lv) |-> LvAdd(mn[k], softplus_raw(LvSub(lv[k], mn[k])))]

BoundVals == {q \in (1..MaxExp) \X (1..MaxExp) : q[1] = 1 \/ q[2] = 1}

RawVals == {q \in (1..MaxRaw) \X (1..MaxRaw) : q[1] = 1 \/ q[2] = 1}

\* the model the loss belongs to: a probabilistic one-step model
LossCfg ==
  [ensemble |-> FALSE, traj |-> FALSE, prob |-> TRUE, E |-> 1,
   state_size |-> 1, action_size |-> 2, param_size |-> 3,
   batch |-> 1, split |-> 1, epochs |-> 1]

\* forward is applied to raw outputs and bound vectors drawn from the grids,
\* with min_logvar <= max_logvar elementwise
InitLoss ==
  /\ cfg = LossCfg
  /\ model = ModelInit(cfg)
  /\ loss_fn = InitLossFn(cfg)
  /\ nets = <<NetInit(InitNIn(cfg), InitNOut(cfg), 0)>>
  /\ acctrain = None /\ acctest = None
  /\ NoCall
  /\ stepped = <<>> /\ tested = <<>>
  /\ x = None /\ ret = None
  /\ lossPc = "raw"
  /\ \E size \in LossSizes :
       /\ lossMax \in [1..size -> BoundVals]
       /\ lossMin \in [1..size -> BoundVals]
       /\ lossRaw \in [1..size -> RawVals]
       /\ \A k \in 1..size : LvLeq(lossMin[k], lossMax[k])
  /\ lossMid = <<>> /\ lossLogvar = <<>>

\* ProbLoss.forward, the cap from above
LossClampMax ==
  /\ lossPc = "raw"
  /\ lossMid' = ClampMax(lossMax, lossRaw)
  /\ lossPc' = "mid"
  /\ UNCHANGED <<modelVars, callVars, ioVars, lossMax, lossMin, lossRaw,
                 lossLogvar>>

\* ProbLoss.forward, the cap from below
LossClampMin ==
  /\ lossPc = "mid"
  /\ lossLogvar' = ClampMin(lossMin, lossMid)
  /\ lossPc' = "done"
  /\ UNCHANGED <<modelVars, callVars, ioVars, lossMax, lossMin, lossRaw,
                 lossMid>>

NextLoss ==
  \/ LossClampMax
  \/ LossClampMin

SpecLoss == InitLoss /\ [][NextLoss]_vars

\* ========================================================= properties

\* ---- C1
C1_SamplesOf(i) == Range(kf[i].train_idx)

\* C1: with ensembling enabled, for E folds over N >= E samples, every sample
\* index is in exactly E-1 members' training index sets and held out from
\* exactly one member, no member's training index set is empty, and the
\* index set a member's optimize call receives is its training index set.
C1_Partition ==
  (model.ens /\ pc \in {"optimize", "epoch", "optimize_ret", "train_ret"}) =>
    LET n == Len(dataset.inputs)
    IN /\ n >= model.E
       /\ Len(kf) = model.E
       /\ \A sample \in 0..(n - 1) :
            /\ Cardinality({i \in 1..model.E : sample \in C1_SamplesOf(i)})
                 = model.E - 1
            /\ Cardinality({i \in 1..model.E : sample \notin C1_SamplesOf(i)})
                 = 1
       /\ \A i \in 1..model.E :
            C1_SamplesOf(i) # {} /\ C1_SamplesOf(i) \subseteq 0..(n - 1)
       /\ (pc \in {"epoch", "optimize_ret"} => Range(sub_data) = C1_SamplesOf(member))

\* four samples in three folds of sizes 2, 1, 1: the last member trains on
\* the three samples outside its fold
C1_Witness ==
  /\ model.ens /\ model.E = 3 /\ pc = "epoch" /\ member = 3
  /\ Len(dataset.inputs) = 4
  /\ Range(sub_data) = {0, 1, 2}

\* ---- C2
\* C2 as stated: member i takes gradient steps on all samples of the folds
\* other than fold i, and fold i is its validation data.
C2_AllOtherFolds ==
  (model.ens /\ pc = "optimize_ret" /\ cfg.epochs >= 1) =>
    /\ stepped[member] = Range(kf[member].train_idx)
    /\ tested[member] = Range(kf[member].test_idx)

C2_Cut(i) ==
  LET M == Len(kf[i].train_idx)
      k == IntTrunc(cfg.split * M, SplitDen)
  IN IF k < 0 THEN Max(M + k, 0) ELSE Min(k, M)

\* C2 amended: with M the number of samples of the other folds and
\* k = int(split * M) (as a Python slice bound), member i takes gradient
\* steps on exactly the first k samples of the other folds, its test error is
\* computed on exactly the remaining M - k samples of the other folds, and no
\* sample of fold i is used by member i for either.
C2_SplitOfOtherFolds ==
  (model.ens /\ pc = "optimize_ret" /\ cfg.epochs >= 1) =>
    LET idx == kf[member].train_idx
        k == C2_Cut(member)
    IN /\ stepped[member] = {idx[j] : j \in 1..k}
       /\ tested[member] = {idx[j] : j \in (k + 1)..Len(idx)}
       /\ stepped[member] \cap Range(kf[member].test_idx) = {}
       /\ tested[member] \cap Range(kf[member].test_idx) = {}

\* four samples, three folds, split 1/2: member 2 receives samples 0, 1, 3,
\* steps on sample 0 and tests on samples 1 and 3
C2_Witness ==
  /\ model.ens /\ pc = "optimize_ret" /\ cfg.epochs = 2 /\ member = 2
  /\ model.E = 3 /\ Len(dataset.inputs) = 4
  /\ stepped[2] = {0} /\ tested[2] = {1, 3}

\* ---- C3
\* C3: predict(x) returns a matrix of shape (rows of x, state_size), for
\* every configuration and every x of n_in columns.
C3_Shape ==
  (pc = "idle" /\ ret.op = "predict") =>
    /\ ret.status = "ok"
    /\ Rows(ret.val.num) = Rows(x)
    /\ \A r \in 1..Rows(x) : Len(ret.val.num[r]) = cfg.state_size

\* ---- C4
C4_Mean(r, c) == SumForward(nets, Len(nets), x, model.n_out)[r][c]

C4_Expected ==
  [r \in 1..Rows(x) |->
     [c \in 1..cfg.state_size |->
        IF cfg.traj THEN C4_Mean(r, c)
        ELSE Len(nets) * x[r][c] + C4_Mean(r, c)]]

\* C4: predict(x) is the uniform mean of the members' outputs; trajectory
\* mode returns the mean's first state_size columns, one-step mode returns
\* x[:, :state_size] plus them, so with every member's output all zeros the
\* result is x[:, :state_size].
C4_MeanOfMembers ==
  (pc = "idle" /\ ret.op = "predict") =>
    /\ ret.status = "ok"
    /\ ret.val.den = Len(nets)
    /\ ret.val.num = C4_Expected
    /\ ((~cfg.traj /\ \A i \in 1..Len(nets) : nets[i].w = 0) =>
          ret.val.num =
            [r \in 1..Rows(x) |->
               [c \in 1..cfg.state_size |-> Len(nets) * x[r][c]]])

\* ---- C5
\* C5: construction sets n_in = state_size + param_size + 1 in trajectory
\* mode and state_size + action_size in one-step mode, n_out = 2*state_size
\* in probabilistic mode and state_size otherwise, whatever the ensemble
\* flag, and every member network is built with these sizes.
C5_Sizes ==
  /\ (cfg.traj => model.n_in = cfg.state_size + cfg.param_size + 1)
  /\ (~cfg.traj => model.n_in = cfg.state_size + cfg.action_size)
  /\ (cfg.prob => model.n_out = 2 * cfg.state_size)
  /\ (~cfg.prob => model.n_out = cfg.state_size)
  /\ Len(nets) = (IF cfg.ensemble THEN cfg.E ELSE 1)
  /\ \A i \in 1..Len(nets) :
       nets[i].n_in = model.n_in /\ nets[i].n_out = model.n_out

C5_Witness ==
  /\ cfg.ensemble /\ cfg.traj /\ cfg.prob /\ Len(nets) = 2
  /\ cfg.state_size = 21
  /\ nets[2].n_in = 25 /\ nets[2].n_out = 42

\* ---- C6
C6_Log(l) ==
  /\ Len(l) = (IF cfg.ensemble THEN cfg.E ELSE 1)
  /\ \A i \in 1..Len(l) :
       /\ Len(l[i]) = cfg.epochs
       /\ \A e \in 1..Len(l[i]) : l[i][e] = <<i, e>>

\* C6: a completed train call returns two parallel sequences whose outer
\* length is the number of members (1 without ensembling), in member order,
\* each inner sequence holding one entry per configured epoch, in epoch order.
C6_ReturnShape ==
  (pc = "idle" /\ ret.op = "train" /\ ret.status = "ok") =>
    /\ C6_Log(ret.val[1])
    /\ C6_Log(ret.val[2])
    /\ acctrain = ret.val[1] /\ acctest = ret.val[2]

C6_Witness ==
  /\ pc = "idle" /\ ret.op = "train" /\ ret.status = "ok"
  /\ cfg.ensemble /\ cfg.E = 3 /\ cfg.epochs = 2
  /\ Len(ret.val[1]) = 3 /\ Len(ret.val[2][3]) = 2

\* ---- C7
\* C7: in probabilistic mode an optimizer step of a member's optimize loop
\* updates max_logvar and min_logvar together with the member's weights.
C7_BoundsUpdated ==
  (model.prob /\ pc \in {"epoch", "optimize_ret"} /\ stepped[member] # {}) =>
    loss_fn # InitLossFn(cfg)

\* ---- C8
\* C8 as stated: with min_logvar <= max_logvar, the logvar after the two
\* soft-clamps satisfies min_logvar <= logvar <= max_logvar elementwise.
C8_Clamped ==
  lossPc = "done" =>
    \A k \in 1..Len(lossLogvar) :
      /\ LvLeq(lossMin[k], lossLogvar[k])
      /\ LvLeq(lossLogvar[k], lossMax[k])

C8_Twice(a) == <<2 * a[1], a[2]>>

\* C8 amended: with min_logvar <= max_logvar, the logvar after the first
\* soft-clamp satisfies logvar <= max_logvar, and the logvar after the second
\* satisfies min_logvar <= logvar <= max_logvar + log(2) elementwise.
C8_SoftClamped ==
  /\ lossPc \in {"mid", "done"} =>
       \A k \in 1..Len(lossMid) : LvLeq(lossMid[k], lossMax[k])
  /\ lossPc = "done" =>
       \A k \in 1..Len(lossLogvar) :
         /\ LvLeq(lossMin[k], lossLogvar[k])
         /\ LvLeq(lossLogvar[k], C8_Twice(lossMax[k]))

\* raw logvar log(8) against bounds log(1/2) and log(2): the result is
\* log(21/10), above max_logvar
C8_Witness ==
  /\ lossPc = "done" /\ Len(lossLogvar) = 1
  /\ lossMin[1] = <<1, 2>> /\ lossMax[1] = <<2, 1>> /\ lossRaw[1] = <<8, 1>>
  /\ ~LvLeq(lossLogvar[1], lossMax[1])

\* ---- C9
\* C9: predict is read-only. The body of predict leaves every member's
\* weights, the loss bound vectors, the stored error logs and the caller's x
\* unchanged, and a predict call on the input of the previous predict call,
\* with no train call in between, returns the same output.
C9_ReadOnly ==
  [][pc = "predict" =>
       /\ nets' = nets /\ loss_fn' = loss_fn
       /\ acctrain' = acctrain /\ acctest' = acctest
       /\ x' = x
       /\ ((ret.op = "predict" /\ ret.of = x) => ret' = ret)]_vars

\* a second predict on the same input has returned, after a training run
C9_Witness ==
  /\ pc = "idle" /\ ret.op = "predict" /\ ret.status = "ok" /\ ret.of = x
  /\ acctrain # None
  /\ \E i \in 1..Len(nets) : nets[i].w # 0

\* ---- C10
C10_Invalid ==
  \/ cfg.epochs <= 0
  \/ cfg.split < 0 \/ cfg.split > SplitDen
  \/ (dataset # None /\ cfg.batch > Min(Len(dataset.inputs), Len(dataset.targets)))

\* C10: an invalid hyperparameter (non-positive epochs, batch size larger
\* than the available data, split outside [0,1]) makes construction or train
\* fail with an error before any gradient step; train never returns normally.
C10_FailFast ==
  C10_Invalid =>
    /\ pc \notin {"epoch", "optimize_ret", "train_ret"}
    /\ ~(ret.op = "train" /\ ret.status = "ok")

\* ---- C11
\* a member's optimize call is about to start on at least one sample, with a
\* usable batch size
C11_Usable ==
  /\ pc = "optimize"
  /\ cfg.batch >= 1
  /\ ~(model.ens /\ IndexRaises(dataset, kf[member].train_idx))
  /\ Len(SubData(dataset, member)) >= 1

\* C11: with split = 1.0 the test part is empty and Net.optimize still runs:
\* the call does not raise, it goes on to its epochs (or to its return when
\* there are none) with an empty test part, and every epoch records a test
\* error.
C11_EmptyTestHandled ==
  [][(C11_Usable /\ cfg.split = SplitDen) =>
       /\ pc' \in {"epoch", "optimize_ret"}
       /\ testPart' = <<>>
       /\ ret' = ret]_vars

\* ---- C12
\* C12: a train call whose dataset has len(inputs) # len(targets) never gets
\* past the start of its first optimize call: no loader is built from it, no
\* member takes a gradient step or evaluates a test sample, and no optimize
\* call returns, with or without ensembling.
C12_MismatchRejected ==
  (/\ dataset # None /\ Len(dataset.inputs) # Len(dataset.targets)
   /\ cfg.batch >= 1 /\ cfg.epochs >= 1 /\ cfg.split \in 0..SplitDen) =>
    /\ pc = "optimize"
    /\ member = 1
    /\ \A i \in 1..Len(nets) : stepped[i] = {} /\ tested[i] = {}

\* ---- C13
\* C13: member isolation. The members are as many networks as were built,
\* each with its own weights: a step that changes member j's weights is an
\* optimizer step of member j's own optimize loop (a batch of its training
\* part), and it leaves the weights of every other member unchanged.
C13_Isolation ==
  [][/\ Len(nets') = Len(nets)
     /\ \A j \in 1..Len(nets) :
          nets'[j] # nets[j] =>
            /\ pc = "epoch" /\ member = j
            /\ remaining # {} /\ remaining' # remaining
            /\ \A i \in 1..Len(nets) : i # j => nets'[i] = nets[i]]_vars

\* the second of three members has taken steps that left it with weights
\* unlike the first member's, and the third has not started
C13_Witness ==
  /\ model.ens /\ Len(nets) = 3 /\ pc = "optimize_ret" /\ member = 2
  /\ stepped[1] # {} /\ stepped[2] # {} /\ stepped[3] = {}
  /\ nets[1].w # nets[2].w

\* ---- C14
\* floor(split * N); the divisor is positive, so \div rounds down
C14_Floor(N) == (cfg.split * N) \div SplitDen

\* C14: in an optimize call on N samples with a split fraction in [0, 1],
\* the training part is the first floor(split * N) samples and the test part
\* the remaining ones, both in the original order; the parts are disjoint,
\* together they are the dataset, and they are determined by the dataset and
\* the split alone.
C14_SequentialSplit ==
  (pc \in {"epoch", "optimize_ret"} /\ cfg.split \in 0..SplitDen) =>
    LET N == Len(sub_data)
        k == C14_Floor(N)
    IN /\ trainPart = SubSeq(sub_data, 1, k)
       /\ testPart = SubSeq(sub_data, k + 1, N)
       /\ trainPart \o testPart = sub_data
       /\ Range(trainPart) \cap Range(testPart) = {}

\* three samples at split 1/2: floor(1.5) = 1 sample to train on, two to test
C14_Witness ==
  /\ pc = "epoch" /\ cfg.split = 1 /\ SplitDen = 2
  /\ sub_data = <<0, 1, 2>>
  /\ trainPart = <<0>> /\ testPart = <<1, 2>>

\* ---- C15
\* C15: with ensembling, a train call goes on to the first member's optimize
\* call only when E >= 2 and the dataset has at least E samples; otherwise it
\* ends at once with the ValueError of the k-fold split, and no member's
\* weights and neither stored log has changed.
C15_KFoldRejects ==
  [][(model.ens /\ pc = "idle" /\ pc' \in {"idle", "optimize"}) =>
       IF pc' = "optimize"
       THEN model.E >= 2 /\ Len(dataset'.inputs) >= model.E
       ELSE /\ ret'.op = "train" /\ ret'.status = "ValueError"
            /\ nets' = nets
            /\ acctrain' = acctrain /\ acctest' = acctest]_vars

\* three members trained once; a later call with fewer than three samples
\* was rejected (with split 1/2 and three or more samples both parts of every
\* member are non-empty, so the error is the k-fold split's) and the logs of
\* the first call are still stored
C15_Witness ==
  /\ model.ens /\ model.E = 3 /\ pc = "idle"
  /\ cfg.split = 1 /\ SplitDen = 2 /\ cfg.batch >= 1 /\ cfg.epochs >= 1
  /\ ret.op = "train" /\ ret.status = "ValueError"
  /\ acctrain # None /\ Len(acctrain) = 3 /\ Len(acctest) = 3

====
